---- MODULE Spec2Model ----
(***************************************************************************)
(* A model of the gogohandlers request pipeline (src/handler.go, first     *)
(* revision, lines 1-252) together with the example application            *)
(* (src/unnamed/part_000): Uitzicht.ServeHTTP, the four built-in           *)
(* middlewares, the error translators and the core handlers.               *)
(*                                                                         *)
(* A request runs through the composed handler one call or return at a     *)
(* time: pc[q] says whether request q is about to call the layer at        *)
(* level[q] ("call"), is returning into it ("return"), has ended with a    *)
(* response ("done") or has ended in a Go panic ("panic").  Layer 0 is     *)
(* the core handler, layer Depth the outermost middleware and layer        *)
(* Depth + 1 the body of ServeHTTP itself.                                 *)
(*                                                                         *)
(* Spec runs one request through every registration of the first           *)
(* revision.  SpecConcurrent runs two requests interleaved through the     *)
(* /ping registration of the example application.  SpecSecondRevision      *)
(* runs one request through the second revision of handler.go (lines       *)
(* 254-477), which composes the middlewares backwards.                     *)
(***************************************************************************)
EXTENDS Naturals, Sequences, FiniteSets, TLC

\* ------------------------------------------------------------------ bounds

\* Longest list of error translators handed to GetErrorHandlingMiddleware.
MaxErrorHandlers == 2

\* ------------------------------------------------------- program constants

StatusOK == 200
StatusBadRequest == 400
StatusInternalServerError == 500
StatusTeapot == 418
StatusFailedDependency == 424

\* ----------------------------------------------------------------- errors

\* A nil error.
NoError == [type |-> "nil"]

MiddlewareProcessingError(message, statusCode) ==
    [type |-> "MiddlewareProcessingError", Message |-> message, StatusCode |-> statusCode]

RandomError == [type |-> "RandomError"]

DatabaseError(dbMessage) == [type |-> "DatabaseError", DBMessage |-> dbMessage]

\* A domain error of a type no translator of the example app knows.
OtherError == [type |-> "errorString", s |-> "boom"]

\* The second revision's error for a body that cannot be decoded or a payload
\* that cannot be encoded.
RequestSerializationError(parserErrorMessage) ==
    [type |-> "RequestSerializationError", ParserErrorMessage |-> parserErrorMessage]

\* The Error() method of each error type.
ErrorMessage(err) ==
    CASE err.type = "MiddlewareProcessingError" -> err.Message
      [] err.type = "RandomError" -> "Random error"
      [] err.type = "DatabaseError" -> "Database error: " \o err.DBMessage
      [] err.type = "errorString" -> err.s
      [] err.type = "RequestSerializationError" -> err.ParserErrorMessage

\* errors.As(handlerErr, &mProcError)
IsMiddlewareProcessingError(err) == err.type = "MiddlewareProcessingError"

\* --------------------------------------------------------------- payloads

\* A nil *TRespBody / *TErrorData.
NilPayload == [type |-> "nil"]

PingResponse(message) == [type |-> "PingResponse", Message |-> message]

SetValueResponse(message) == [type |-> "SetValueResponse", Message |-> message]

ExampleAppErrorData(code, message, details) ==
    [type |-> "ExampleAppErrorData", Code |-> code, Message |-> message, Details |-> details]

\* A payload whose type encoding/json cannot encode (a struct holding a channel).
UnsupportedPayload == [type |-> "chan"]

\* json.Marshal of the Details map of ExampleAppErrorData.
MarshalDetails(details) ==
    IF details = "nil" THEN "null" ELSE "{\"reason\":\"" \o details \o "\"}"

\* json.Marshal of a payload pointer: the bytes, or the encoder's error.
JSONMarshal(v) ==
    CASE v.type = "nil" -> [err |-> "", bytes |-> "null"]
      [] v.type = "PingResponse" ->
            [err |-> "", bytes |-> "{\"msg\":\"" \o v.Message \o "\"}"]
      [] v.type = "SetValueResponse" ->
            [err |-> "", bytes |-> "{\"message\":\"" \o v.Message \o "\"}"]
      [] v.type = "ExampleAppErrorData" ->
            [err |-> "",
             bytes |-> "{\"code\":\"" \o v.Code \o "\",\"message\":\"" \o v.Message
                       \o "\",\"details\":" \o MarshalDetails(v.Details) \o "}"]
      [] v.type = "chan" ->
            [err |-> "json: unsupported type: chan int", bytes |-> ""]

\* ---------------------------------------------------------------- headers

HeaderNames == {"content-type", "X-Request-Id", "X-Custom"}

\* A nil (or empty) Headers map: no name carries a value.
NoHeaders == [h \in HeaderNames |-> <<>>]

\* textproto.CanonicalMIMEHeaderKey, as http.Header.Set applies it.
CanonicalHeaderKey(name) ==
    CASE name = "content-type" -> "Content-Type"
      [] name = "X-Request-Id" -> "X-Request-Id"
      [] name = "X-Custom" -> "X-Custom"

CanonicalNames == {CanonicalHeaderKey(h) : h \in HeaderNames}

\* --------------------------------------------------------------- envelope

\* A nil *GGResponse.
NilGGResponse == [isNil |-> TRUE]

GGResponse(responseData, errorOccured, errorData, statusCode, headers) ==
    [isNil |-> FALSE,
     ResponseData |-> responseData,
     ErrorOccured |-> errorOccured,
     ErrorData |-> errorData,
     StatusCode |-> statusCode,
     Headers |-> headers,
     serializedResponse |-> ""]

\* &GGResponse[TRespBody, TErrorData]{}
EmptyGGResponse == GGResponse(NilPayload, FALSE, NilPayload, 0, NoHeaders)

\* ------------------------------------------------------------ raw request

\* Request.Body: http.NoBody, a nil ReadCloser (http.NewRequest with a nil
\* body), or a reader over some bytes.
NoBody == [kind |-> "NoBody", bytes |-> ""]
NilBody == [kind |-> "nil", bytes |-> ""]
BodyOf(bytes) == [kind |-> "reader", bytes |-> bytes]

ValidSetValueBody == "{\"key\":\"a\",\"value\":\"b\"}"

\* The byte strings a request body reader may hold: nothing, a truncated
\* object, a JSON array (valid JSON, no object), and an object.
BodyBytes == {"", "{", "[1]", ValidSetValueBody}

Bodies == {NoBody, NilBody} \cup {BodyOf(b) : b \in BodyBytes}

\* A query key that the URL does not carry.
Absent == "<absent>"

QueryKeys == {"msg", "mayfail", "mustfail", "extra"}

\* url.Values of the query strings sent to /ping.
PingQueries ==
    {[msg |-> m, mayfail |-> may, mustfail |-> must, extra |-> x] :
        m \in {Absent, "test-message"}, may \in {Absent, "1"},
        must \in {Absent, "1", "maybe"}, x \in {Absent, "1"}}

\* Query strings sent to the endpoints that declare no query parameters.
PlainQueries ==
    {[msg |-> Absent, mayfail |-> Absent, mustfail |-> Absent, extra |-> x] :
        x \in {Absent, "1"}}

\* --------------------------------------------------------------- decoding

\* The zero value of a request body type.
ZeroBody(tReqBody) ==
    IF tReqBody = "SetValueRequest"
    THEN [type |-> "SetValueRequest", Key |-> "", Value |-> ""]
    ELSE [type |-> "struct{}", Key |-> "", Value |-> ""]

\* json.NewDecoder(body).Decode(&reqBody): the decoder's error message ("" for
\* none) and the decoded value.
JSONDecode(tReqBody, bytes) ==
    CASE bytes = "" -> [err |-> "EOF", value |-> ZeroBody(tReqBody)]
      [] bytes = "{" -> [err |-> "unexpected EOF", value |-> ZeroBody(tReqBody)]
      [] bytes = "[1]" ->
            [err |-> "json: cannot unmarshal array into Go value of type " \o tReqBody,
             value |-> ZeroBody(tReqBody)]
      [] bytes = ValidSetValueBody ->
            [err |-> "",
             value |-> IF tReqBody = "SetValueRequest"
                       THEN [type |-> "SetValueRequest", Key |-> "a", Value |-> "b"]
                       ELSE ZeroBody(tReqBody)]

\* The schema aliases of the fields of a query-parameter type.
SchemaFields(tGetParams) ==
    IF tGetParams = "PingGetParams" THEN {"msg", "mayfail", "mustfail"} ELSE {}

\* schema's bool converter: "on" and what strconv.ParseBool accepts.
ConvertBool(value) ==
    CASE value \in {"1", "t", "T", "true", "TRUE", "True", "on"} -> [ok |-> TRUE, v |-> TRUE]
      [] value \in {"0", "f", "F", "false", "FALSE", "False"} -> [ok |-> TRUE, v |-> FALSE]
      [] OTHER -> [ok |-> FALSE, v |-> FALSE]

\* The errors schema.Decoder.Decode collects into its MultiError.
SchemaErrors(tGetParams, query, ignoreUnknownKeys) ==
    {"schema: invalid path \"" \o k \o "\"" :
        k \in {k \in QueryKeys : /\ query[k] # Absent
                                 /\ k \notin SchemaFields(tGetParams)
                                 /\ ~ignoreUnknownKeys}}
    \cup
    {"schema: error converting value for \"" \o k \o "\"" :
        k \in {k \in {"mayfail", "mustfail"} \cap SchemaFields(tGetParams) :
                 /\ query[k] # Absent
                 /\ ~ConvertBool(query[k]).ok}}

\* MultiError.Error(): one of the collected messages (map order), and how many more.
MultiErrorMessages(errs) ==
    {m \o (CASE Cardinality(errs) = 1 -> ""
             [] Cardinality(errs) = 2 -> " (and 1 other error)"
             [] OTHER -> " (and more other errors)") : m \in errs}

\* schema.Decoder.Decode that ignores the default of the msg field.
SchemaDecodeNoDefault(tGetParams, query) ==
    IF tGetParams = "PingGetParams"
    THEN [type |-> "PingGetParams",
          Message |-> IF query.msg = Absent THEN "" ELSE query.msg,
          MayFail |-> query.mayfail # Absent /\ ConvertBool(query.mayfail).v,
          MustFail |-> query.mustfail # Absent /\ ConvertBool(query.mustfail).v]
    ELSE [type |-> "struct{}", Message |-> "", MayFail |-> FALSE, MustFail |-> FALSE]

\* The value schema.Decoder.Decode leaves in getParams when it reports no error.
SchemaDecode(tGetParams, query) ==
    IF tGetParams = "PingGetParams"
    THEN [type |-> "PingGetParams",
          Message |-> IF query.msg = Absent THEN "pong" ELSE query.msg,
          MayFail |-> query.mayfail # Absent /\ ConvertBool(query.mayfail).v,
          MustFail |-> query.mustfail # Absent /\ ConvertBool(query.mustfail).v]
    ELSE [type |-> "struct{}", Message |-> "", MayFail |-> FALSE, MustFail |-> FALSE]

\* DataProcessingMiddlewareSettings, or nil.
NilSettings == [isNil |-> TRUE, ForbidUnknownKeysInGetParams |-> FALSE]
Settings(forbid) == [isNil |-> FALSE, ForbidUnknownKeysInGetParams |-> forbid]

\* A decoder left as schema.NewDecoder() builds it, whatever the settings say.
IgnoreUnknownKeysUnset(settings) == FALSE

\* Whether the query decoder ignores unknown keys: schema.NewDecoder() does not,
\* and IgnoreUnknownKeys is called only when settings are given.
IgnoreUnknownKeys(settings) ==
    IF settings.isNil THEN FALSE ELSE ~settings.ForbidUnknownKeysInGetParams

\* ------------------------------------------------------ error translators

\* HandleErrors of the example app: (statusCode, errorData) for an error, and
\* status 0 with a nil payload for an error type it does not know.
HandleErrors(err) ==
    CASE err.type = "RandomError" ->
            [statusCode |-> StatusTeapot,
             errorData |-> ExampleAppErrorData("TEAPOT", ErrorMessage(err), "destiny")]
      [] err.type = "DatabaseError" ->
            [statusCode |-> StatusFailedDependency,
             errorData |-> ExampleAppErrorData("DATABASE", ErrorMessage(err), "nil")]
      [] OTHER -> [statusCode |-> 0, errorData |-> NilPayload]

\* HandleErrors with a default branch: every other error becomes 500 INTERNAL.
HandleErrorsDefault(err) ==
    CASE err.type = "RandomError" ->
            [statusCode |-> StatusTeapot,
             errorData |-> ExampleAppErrorData("TEAPOT", ErrorMessage(err), "destiny")]
      [] err.type = "DatabaseError" ->
            [statusCode |-> StatusFailedDependency,
             errorData |-> ExampleAppErrorData("DATABASE", ErrorMessage(err), "nil")]
      [] OTHER ->
            [statusCode |-> StatusInternalServerError,
             errorData |-> ExampleAppErrorData("INTERNAL", ErrorMessage(err), "nil")]

ErrorHandlerNames == {"HandleErrors", "HandleErrorsDefault"}

\* errorHandlerFunc(err, ggreq.Logger)
ApplyErrorHandler(name, err) ==
    IF name = "HandleErrors" THEN HandleErrors(err) ELSE HandleErrorsDefault(err)

\* The translator lists an application may register.
ErrorHandlerLists ==
    UNION {[1..n -> ErrorHandlerNames] : n \in 0..MaxErrorHandlers}

\* The translator loop without its break: every translator is called and the
\* last result stands.
RECURSIVE RunErrorHandlersNoBreak(_, _, _, _)
RunErrorHandlersNoBreak(errorHandlers, i, err, acc) ==
    IF i > Len(errorHandlers) THEN acc
    ELSE LET res == ApplyErrorHandler(errorHandlers[i], err)
         IN RunErrorHandlersNoBreak(errorHandlers, i + 1, err,
                [statusCode |-> res.statusCode, errorData |-> res.errorData,
                 invoked |-> Append(acc.invoked, i)])

\* The translator loop of ErrorHandlingMiddleware from index i on: the last
\* (statusCode, errorData) assigned and the indices of the translators called.
RECURSIVE RunErrorHandlers(_, _, _, _)
RunErrorHandlers(errorHandlers, i, err, acc) ==
    IF i > Len(errorHandlers) THEN acc
    ELSE LET res == ApplyErrorHandler(errorHandlers[i], err)
             next == [statusCode |-> res.statusCode, errorData |-> res.errorData,
                      invoked |-> Append(acc.invoked, i)]
         IN IF res.statusCode # 0 THEN next
            ELSE RunErrorHandlers(errorHandlers, i + 1, err, next)

\* statusCode := http.StatusOK; var errorData *TErrorData
ErrorHandlersStart == [statusCode |-> StatusOK, errorData |-> NilPayload, invoked |-> <<>>]

\* ---------------------------------------------------------- core handlers

HandlerNames == {"HandlePing", "HandleSetValue", "UserHandler"}

\* The request body type a handler declares.
TReqBody(handlerFunc) ==
    IF handlerFunc = "HandleSetValue" THEN "SetValueRequest" ELSE "struct{}"

\* The query-parameter type a handler declares.
TGetParams(handlerFunc) ==
    IF handlerFunc = "HandlePing" THEN "PingGetParams" ELSE "struct{}"

\* The query strings sent to a handler's endpoint.
QueriesOf(handlerFunc) ==
    IF handlerFunc = "HandlePing" THEN PingQueries ELSE PlainQueries

\* What a handler written by the library's user may return: any envelope
\* pointer (nil included) with any error.
UserHandlerResults ==
    { [ggresp |-> GGResponse(SetValueResponse("ok"), FALSE, NilPayload, 0, NoHeaders),
       err |-> NoError],
      [ggresp |-> GGResponse(SetValueResponse("created"), FALSE, NilPayload, 201, NoHeaders),
       err |-> NoError],
      [ggresp |-> GGResponse(NilPayload, TRUE,
                             ExampleAppErrorData("CUSTOM", "failed", "nil"), 0, NoHeaders),
       err |-> NoError],
      [ggresp |-> GGResponse(NilPayload, TRUE,
                             ExampleAppErrorData("GONE", "gone", "nil"), 410, NoHeaders),
       err |-> NoError],
      [ggresp |-> GGResponse(UnsupportedPayload, FALSE, NilPayload, 0, NoHeaders),
       err |-> NoError],
      [ggresp |-> GGResponse(NilPayload, TRUE, UnsupportedPayload, 410, NoHeaders),
       err |-> NoError],
      [ggresp |-> GGResponse(SetValueResponse("ok"), FALSE, NilPayload, 0,
                             [NoHeaders EXCEPT !["content-type"] = <<"text/plain">>,
                                               !["X-Custom"] = <<"a", "b">>]),
       err |-> NoError],
      [ggresp |-> EmptyGGResponse, err |-> RandomError],
      [ggresp |-> EmptyGGResponse, err |-> OtherError],
      [ggresp |-> GGResponse(NilPayload, FALSE, NilPayload, 201,
                             [NoHeaders EXCEPT !["X-Custom"] = <<"a">>]),
       err |-> DatabaseError("locked")],
      [ggresp |-> NilGGResponse, err |-> RandomError],
      [ggresp |-> NilGGResponse, err |-> OtherError] }

\* -------------------------------------------------------- middleware chain

\* The Middlewares lists an application may register.  The example app
\* registers the first.
StandardMiddlewares == <<"ErrorHandling", "DataProcessing", "RequestLogging", "RequestID">>

MiddlewareLists ==
    { StandardMiddlewares,
      <<"DataProcessing", "ErrorHandling", "RequestLogging", "RequestID">>,
      <<"ErrorHandling", "DataProcessing">> }

\* theHandler = mw(theHandler) for each mw of the iterated sequence in turn:
\* every wrapper goes around what was built so far.  The result lists the
\* wrappers of the composed handler, innermost first.
RECURSIVE WrapAll(_, _)
WrapAll(iterated, wrappers) ==
    IF iterated = <<>> THEN wrappers
    ELSE WrapAll(Tail(iterated), Append(wrappers, Head(iterated)))

\* An iteration that visits the list from index 0 up, as a plain range does.
BackwardKeepsOrder(s) == s

\* slices.Backward(s): the elements from the last index down to index 0.
Backward(s) == [k \in 1..Len(s) |-> s[Len(s) + 1 - k]]

\* The second revision's loop: for _, mw := range slices.Backward(u.Middlewares).
ComposeBackward(middlewares) == WrapAll(Backward(middlewares), <<>>)

\* A forward loop that wraps the other way round: index 0 ends up outermost.
ComposeFirstOutermost(middlewares) == Backward(WrapAll(middlewares, <<>>))

\* theHandler := u.HandlerFunc; for _, mw := range u.Middlewares { theHandler =
\* mw(theHandler) }: the wrappers of the composed handler, innermost first.
Compose(middlewares) == WrapAll(middlewares, <<>>)

\* ------------------------------------------------------------------ state

\* The requests in flight.  Under Spec only r1 is served.
Reqs == {"r1", "r2"}

VARIABLES
    u,          \* the registered Uitzicht value (shared by all requests)
    r,          \* r[q]: the raw HTTP request
    pc,         \* pc[q]: "unused", "start", "call", "return", "done", "panic"
    level,      \* level[q]: the layer about to be called or returned into
    ggreq,      \* ggreq[q]: the GGRequest built by ServeHTTP
    requestID,  \* requestID[q]: the local requestID of RequestIDMiddleware
    ret,        \* ret[q][i]: the (ggresp, err) pair layer i returned, once it has
    w,          \* w[q]: the http.ResponseWriter
    panicValue, \* panicValue[q]: what a panic was raised with
    log,        \* the events the loggers emitted, in order
    storage,    \* the rows of the storage table
    trace       \* trace[q]: the layers entered and left and the translators called

vars == <<u, r, pc, level, ggreq, requestID, ret, w, panicValue, log, storage, trace>>

\* A context that holds no value under requestIDContextKey.
NoValue == "<no value>"

\* A logger without a request_id attribute.
NoAttr == "<no attr>"

NilRequestData == [type |-> "nil", Key |-> "", Value |-> ""]
NilGetParams == [type |-> "nil", Message |-> "", MayFail |-> FALSE, MustFail |-> FALSE]

\* What uuid.New().String() may return.
UUIDs == {"uuid-1", "uuid-2"}

\* The values of an incoming X-Request-Id header.
IncomingRequestIDs == {Absent, "abc"}

NewResponseWriter ==
    [header |-> [n \in CanonicalNames |-> <<>>], code |-> 0, body |-> "", calls |-> <<>>]

\* The wrappers of the handler ServeHTTP composes, innermost first: by the
\* forward loop in the first revision of handler.go, by the backward loop in
\* the second.
Composed ==
    IF u.revision = 1 THEN Compose(u.Middlewares) ELSE ComposeBackward(u.Middlewares)

Depth == Len(Composed)

\* A layer that has not returned.
NotReturned == [done |-> FALSE, ggresp |-> NilGGResponse, err |-> NoError]

\* The middleware at a layer of the composed handler.
Layer(i) == Composed[i]

\* logger.<Level>(msg): the event as the handler emits it.  Debug events are
\* below the level of the logger the application builds and are not emitted.
Event(q, logger, lvl, msg) ==
    [by |-> q, level |-> lvl, msg |-> msg, request_id |-> logger.request_id]

\* A pipeline that keeps the logger RequestLoggingMiddleware derives in one
\* place shared by all calls: every layer logs with the logger derived last.
RequestLoggerShared(q) ==
    LET derived == {k \in 1..Len(log) : log[k].msg = "New request"}
    IN IF derived = {} THEN u.Logger
       ELSE [request_id |-> log[CHOOSE k \in derived : \A j \in derived : j <= k].request_id]

\* The logger a layer finds in the GGRequest of its own call: ServeHTTP builds
\* one GGRequest per call and no layer writes to u.Logger.
RequestLogger(q) == ggreq[q].Logger

Visit(q, ev, who, n) == [trace EXCEPT ![q] = Append(@, [ev |-> ev, who |-> who, n |-> n])]

\* The configurations an application may register.
Configurations ==
    {[revision |-> 1, HandlerFunc |-> h, Middlewares |-> m, errorHandlers |-> e,
      settings |-> s, Logger |-> [request_id |-> NoAttr]] :
        h \in HandlerNames, m \in MiddlewareLists, e \in ErrorHandlerLists,
        s \in {NilSettings, Settings(TRUE), Settings(FALSE)}}

\* The raw requests that may reach a handler.
RequestsFor(handlerFunc) ==
    {[Body |-> b, Query |-> qs, XRequestId |-> id] :
        b \in Bodies, qs \in QueriesOf(handlerFunc), id \in IncomingRequestIDs}

NoRequest == [Body |-> NoBody, Query |-> CHOOSE qs \in PlainQueries : qs.extra = Absent,
              XRequestId |-> Absent]

InitCommon ==
    /\ level = [q \in Reqs |-> 0]
    /\ ggreq = [q \in Reqs |->
                 [RequestData |-> NilRequestData, GetParams |-> NilGetParams,
                  ctxRequestID |-> NoValue, Logger |-> [request_id |-> NoAttr]]]
    /\ requestID = [q \in Reqs |-> ""]
    /\ ret = [q \in Reqs |-> [i \in 0..Depth |-> NotReturned]]
    /\ w = [q \in Reqs |-> NewResponseWriter]
    /\ panicValue = [q \in Reqs |-> ""]
    /\ log = <<>>
    /\ storage = {}
    /\ trace = [q \in Reqs |-> <<>>]

Init ==
    /\ u \in Configurations
    /\ \E req \in RequestsFor(u.HandlerFunc) :
          r = [q \in Reqs |-> IF q = "r1" THEN req ELSE NoRequest]
    /\ pc = [q \in Reqs |-> IF q = "r1" THEN "start" ELSE "unused"]
    /\ InitCommon

\* --------------------------------------------------------- control moves

\* Call the next layer inward.
Descend(q) ==
    /\ level' = [level EXCEPT ![q] = @ - 1]
    /\ UNCHANGED <<pc, ret, panicValue>>

\* A pipeline that retries: a layer that ends with an error is invoked again.
ReturnRetrying(q, ggresp, err) ==
    IF err # NoError
    THEN /\ pc' = [pc EXCEPT ![q] = "call"]
         /\ UNCHANGED <<ret, level, panicValue>>
    ELSE /\ ret' = [ret EXCEPT ![q][level[q]] = [done |-> TRUE, ggresp |-> ggresp, err |-> err]]
         /\ level' = [level EXCEPT ![q] = @ + 1]
         /\ pc' = [pc EXCEPT ![q] = "return"]
         /\ UNCHANGED panicValue

\* The layer at level[q] returns (ggresp, err) to the layer outside.
Return(q, ggresp, err) ==
    /\ ret' = [ret EXCEPT ![q][level[q]] = [done |-> TRUE, ggresp |-> ggresp, err |-> err]]
    /\ level' = [level EXCEPT ![q] = @ + 1]
    /\ pc' = [pc EXCEPT ![q] = "return"]
    /\ UNCHANGED panicValue

\* A Go panic unwinds ServeHTTP: nothing more is done for the request.
Panic(q, value) ==
    /\ pc' = [pc EXCEPT ![q] = "panic"]
    /\ panicValue' = [panicValue EXCEPT ![q] = value]
    /\ UNCHANGED <<ret, level>>

NilDereference == "runtime error: invalid memory address or nil pointer dereference"

\* What the handler wrapped by the layer at level[q] returned.
Inner(q) == ret[q][level[q] - 1]

\* ------------------------------------------------------ ServeHTTP, part 1

\* ServeHTTP up to the call of the composed handler: the fresh GGRequest and
\* the composition of the middlewares around HandlerFunc.
ServeHTTPBegin(q) ==
    /\ pc[q] = "start"
    /\ ggreq' = [ggreq EXCEPT ![q] =
                    [RequestData |-> NilRequestData, GetParams |-> NilGetParams,
                     ctxRequestID |-> NoValue, Logger |-> u.Logger]]
    /\ level' = [level EXCEPT ![q] = Depth]
    /\ pc' = [pc EXCEPT ![q] = "call"]
    /\ trace' = Visit(q, "call", "ServeHTTP", Depth + 1)
    /\ UNCHANGED <<u, r, requestID, ret, w, panicValue, log, storage>>

AtCall(q, who) ==
    /\ pc[q] = "call"
    /\ level[q] >= 1
    /\ Layer(level[q]) = who

AtReturn(q, who) ==
    /\ pc[q] = "return"
    /\ level[q] <= Depth
    /\ Layer(level[q]) = who

\* ---------------------------------------------------- RequestIDMiddleware

\* RequestIDMiddleware that generates a new id for every request.
PickRequestIDAlwaysNew(incoming) == UUIDs

\* The id RequestIDMiddleware may pick: the incoming header's first value, or
\* a new uuid.
PickRequestID(incoming) == IF incoming # Absent THEN {incoming} ELSE UUIDs

\* RequestIDMiddleware that sets the header only on an envelope whose body has
\* been serialized.
WithRequestIDOnSerialized(ggresp, id) ==
    IF ggresp.serializedResponse = "" THEN ggresp
    ELSE [ggresp EXCEPT !.Headers["X-Request-Id"] = <<id>>]

\* ggresp.Headers["X-Request-Id"] = []string{requestID}
WithRequestID(ggresp, id) == [ggresp EXCEPT !.Headers["X-Request-Id"] = <<id>>]

RequestIDMiddlewareCall(q) ==
    /\ AtCall(q, "RequestID")
    /\ \E id \in PickRequestID(r[q].XRequestId) :
          \* uuid.New() returns no id it has returned before
          /\ r[q].XRequestId = Absent => \A p \in Reqs \ {q} : requestID[p] # id
          /\ requestID' = [requestID EXCEPT ![q] = id]
          /\ ggreq' = [ggreq EXCEPT ![q].ctxRequestID = id]
    /\ Descend(q)
    /\ trace' = Visit(q, "call", "RequestID", level[q])
    /\ UNCHANGED <<u, r, w, log, storage>>

RequestIDMiddlewareReturn(q) ==
    /\ AtReturn(q, "RequestID")
    /\ trace' = Visit(q, "return", "RequestID", level[q])
    /\ IF Inner(q).ggresp.isNil
       THEN \* ggresp.Headers of a nil ggresp
            Panic(q, NilDereference)
       ELSE Return(q, WithRequestID(Inner(q).ggresp, requestID[q]), Inner(q).err)
    /\ UNCHANGED <<u, r, ggreq, requestID, w, log, storage>>

\* ----------------------------------------------- RequestLoggingMiddleware

\* RequestLoggingMiddleware that never finds the id in the context.
LoggedRequestIDNotFound(ctxValue) == ""

\* The request_id attribute RequestLoggingMiddleware gives the logger: the
\* context value, or the empty string when the context holds none.
LoggedRequestID(ctxValue) == IF ctxValue # NoValue THEN ctxValue ELSE ""

\* RequestLoggingMiddleware that reports the end of successful requests only.
RequestFinishedEventsOnSuccess(q, logger, err) ==
    IF err = NoError THEN <<Event(q, logger, "INFO", "Request finished")>> ELSE <<>>

\* The events RequestLoggingMiddleware emits once hFunc has returned with err:
\* "Request finished", whatever err is.
RequestFinishedEvents(q, logger, err) ==
    <<Event(q, logger, "INFO", "Request finished")>>

RequestLoggingMiddlewareCall(q) ==
    /\ AtCall(q, "RequestLogging")
    /\ LET logger == [request_id |-> LoggedRequestID(ggreq[q].ctxRequestID)]
       IN /\ ggreq' = [ggreq EXCEPT ![q].Logger = logger]
          /\ log' = Append(log, Event(q, logger, "INFO", "New request"))
    /\ Descend(q)
    /\ trace' = Visit(q, "call", "RequestLogging", level[q])
    /\ UNCHANGED <<u, r, requestID, w, storage>>

RequestLoggingMiddlewareReturn(q) ==
    /\ AtReturn(q, "RequestLogging")
    /\ log' = log \o RequestFinishedEvents(q, RequestLogger(q), Inner(q).err)
    /\ Return(q, Inner(q).ggresp, Inner(q).err)
    /\ trace' = Visit(q, "return", "RequestLogging", level[q])
    /\ UNCHANGED <<u, r, ggreq, requestID, w, storage>>

\* ------------------------------------------------ DataProcessingMiddleware

\* The outcome of decoding the request body: "skip" for http.NoBody, "panic"
\* for a nil reader, else the decoder's result.
DecodeBody(tReqBody, body) ==
    CASE body.kind = "NoBody" -> [how |-> "skip", err |-> "", value |-> ZeroBody(tReqBody)]
      [] body.kind = "nil" -> [how |-> "panic", err |-> "", value |-> ZeroBody(tReqBody)]
      [] OTHER -> LET d == JSONDecode(tReqBody, body.bytes)
                  IN [how |-> "decode", err |-> d.err, value |-> d.value]

\* DataProcessingMiddleware that forgets to return on a query decode error.
DataProcessingStepNoQueryCheck(body, errs) ==
    CASE body.how = "panic" -> "panic"
      [] body.how # "panic" /\ body.err # "" -> "bodyError"
      [] OTHER -> "proceed"

\* How far DataProcessingMiddleware gets on the way in: it panics reading a nil
\* body, returns on a body decode error, returns on a query decode error, or
\* proceeds to call the wrapped handler.
DataProcessingStep(body, errs) ==
    CASE body.how = "panic" -> "panic"
      [] body.how # "panic" /\ body.err # "" -> "bodyError"
      [] body.how # "panic" /\ body.err = "" /\ errs # {} -> "queryError"
      [] OTHER -> "proceed"

DataProcessingMiddlewareCall(q) ==
    /\ AtCall(q, "DataProcessing")
    /\ LET body == DecodeBody(TReqBody(u.HandlerFunc), r[q].Body)
           errs == SchemaErrors(TGetParams(u.HandlerFunc), r[q].Query,
                                IgnoreUnknownKeys(u.settings))
           step == DataProcessingStep(body, errs)
       IN /\ trace' = [trace EXCEPT ![q] =
                          @ \o <<[ev |-> "call", who |-> "DataProcessing", n |-> level[q]]>>
                            \o (IF step = "proceed" THEN <<>>
                                ELSE <<[ev |-> "return", who |-> "DataProcessing",
                                        n |-> level[q]]>>)]
          /\ IF step = "panic"
             THEN \* Decode reads from the nil io.Reader
                  /\ Panic(q, NilDereference)
                  /\ UNCHANGED <<ggreq, log>>
             ELSE IF step = "bodyError"
             THEN /\ log' = Append(log, Event(q, [request_id |-> NoAttr], "INFO",
                                               "Error decoding request body"))
                  /\ Return(q, NilGGResponse,
                            MiddlewareProcessingError(body.err, StatusBadRequest))
                  /\ UNCHANGED ggreq
             ELSE IF step = "queryError"
             THEN /\ \E message \in MultiErrorMessages(errs) :
                        Return(q, EmptyGGResponse,
                               MiddlewareProcessingError(message, StatusBadRequest))
                  /\ ggreq' = [ggreq EXCEPT ![q].RequestData = body.value]
                  /\ UNCHANGED log
             ELSE /\ ggreq' = [ggreq EXCEPT
                                  ![q].RequestData = body.value,
                                  ![q].GetParams = SchemaDecode(TGetParams(u.HandlerFunc),
                                                                r[q].Query)]
                  /\ Descend(q)
                  /\ UNCHANGED log
    /\ UNCHANGED <<u, r, requestID, w, storage>>

\* DataProcessingMiddleware that always serializes the success payload.
SelectedPayloadAlwaysResponseData(ggresp) == ggresp.ResponseData

\* The payload DataProcessingMiddleware serializes.
SelectedPayload(ggresp) ==
    IF ~ggresp.ErrorOccured THEN ggresp.ResponseData ELSE ggresp.ErrorData

\* DataProcessingMiddleware that hands the inner handler's envelope on with
\* the error.
OnInnerErrorKeepsEnvelope(ggresp) == ggresp

\* if err != nil { return &GGResponse[TRespBody, TErrorData]{}, err }: the
\* envelope returned with the inner handler's error is a new, empty one.
OnInnerError(ggresp) == EmptyGGResponse

DataProcessingMiddlewareReturn(q) ==
    /\ AtReturn(q, "DataProcessing")
    /\ trace' = Visit(q, "return", "DataProcessing", level[q])
    /\ LET ggresp == Inner(q).ggresp
           err == Inner(q).err
       IN IF err # NoError
          THEN Return(q, OnInnerError(ggresp), err)
          ELSE LET m == JSONMarshal(SelectedPayload(ggresp))
               IN IF m.err # ""
                  THEN Return(q, ggresp, MiddlewareProcessingError(m.err, StatusBadRequest))
                  ELSE Return(q, [ggresp EXCEPT
                                     !.serializedResponse = m.bytes,
                                     !.Headers["content-type"] = <<"application/json">>],
                              err)
    /\ UNCHANGED <<u, r, ggreq, requestID, w, log, storage>>

\* ------------------------------------------------ ErrorHandlingMiddleware

ErrorHandlingMiddlewareCall(q) ==
    /\ AtCall(q, "ErrorHandling")
    /\ Descend(q)
    /\ trace' = Visit(q, "call", "ErrorHandling", level[q])
    /\ UNCHANGED <<u, r, ggreq, requestID, w, log, storage>>

\* The events the translator calls log: "Handling error" each, and "Handled
\* error" from one that matched.
RECURSIVE TranslatorEvents(_, _, _, _, _)
TranslatorEvents(q, logger, errorHandlers, invoked, err) ==
    IF invoked = <<>> THEN <<>>
    ELSE <<Event(q, logger, "WARN", "Handling error")>>
         \o (IF ApplyErrorHandler(errorHandlers[Head(invoked)], err).statusCode # 0
             THEN <<Event(q, logger, "WARN", "Handled error")>>
             ELSE <<>>)
         \o TranslatorEvents(q, logger, errorHandlers, Tail(invoked), err)

\* The trace entries of the translator calls.
TranslatorVisits(errorHandlers, invoked) ==
    [k \in 1..Len(invoked) |->
        [ev |-> "translate", who |-> errorHandlers[invoked[k]], n |-> invoked[k]]]

\* ErrorHandlingMiddleware that turns an error no translator took into an
\* error envelope instead of returning it.
ErrorHandlingOutcomeNeverPropagates(ggresp, translated) ==
    IF ggresp.isNil THEN "panic" ELSE "adopt"

\* What ErrorHandlingMiddleware does with an error once the translators have
\* run: "propagate" it, "panic" on a nil envelope, or "adopt" the translation.
ErrorHandlingOutcome(ggresp, translated) ==
    IF translated.statusCode = 0 THEN "propagate"
    ELSE IF ggresp.isNil THEN "panic"
    ELSE "adopt"

\* ErrorHandlingMiddleware that stores the translation without marking the
\* envelope as an error.
AdoptWithoutFlag(ggresp, translated) ==
    [ggresp EXCEPT !.ErrorData = translated.errorData,
                   !.StatusCode = translated.statusCode]

\* ggresp.ErrorData = errorData; ggresp.StatusCode = statusCode;
\* ggresp.ErrorOccured = true
Adopt(ggresp, translated) ==
    [ggresp EXCEPT !.ErrorData = translated.errorData,
                   !.StatusCode = translated.statusCode,
                   !.ErrorOccured = TRUE]

\* ErrorHandlingMiddleware that writes the initial value of statusCode into the
\* envelope also when there is no error.
PassOnWithStatus(ggresp) ==
    IF ggresp.isNil THEN ggresp ELSE [ggresp EXCEPT !.StatusCode = StatusOK]

\* Without an error ErrorHandlingMiddleware skips the whole `if err != nil`
\* block: it returns the envelope it received, no field assigned.
PassOn(ggresp) == ggresp

ErrorHandlingMiddlewareReturn(q) ==
    /\ AtReturn(q, "ErrorHandling")
    /\ LET ggresp == Inner(q).ggresp
           err == Inner(q).err
           translated == RunErrorHandlers(u.errorHandlers, 1, err, ErrorHandlersStart)
           outcome == ErrorHandlingOutcome(ggresp, translated)
       IN IF err = NoError
          THEN /\ Return(q, PassOn(ggresp), NoError)
               /\ trace' = Visit(q, "return", "ErrorHandling", level[q])
               /\ UNCHANGED log
          ELSE /\ log' = log
                         \o <<Event(q, RequestLogger(q), "WARN", "Going to handle error")>>
                         \o TranslatorEvents(q, RequestLogger(q), u.errorHandlers,
                                             translated.invoked, err)
               /\ trace' = [trace EXCEPT ![q] =
                               @ \o TranslatorVisits(u.errorHandlers, translated.invoked)
                                 \o <<[ev |-> "return", who |-> "ErrorHandling",
                                       n |-> level[q]]>>]
               /\ IF outcome = "propagate"
                  THEN Return(q, ggresp, err)
                  ELSE IF outcome = "panic"
                  THEN \* ggresp.ErrorData = errorData on a nil ggresp
                       Panic(q, NilDereference)
                  ELSE Return(q, Adopt(ggresp, translated), NoError)
    /\ UNCHANGED <<u, r, ggreq, requestID, w, storage>>

\* ---------------------------------------------------------- core handlers

AtCore(q, handlerFunc) ==
    /\ pc[q] = "call"
    /\ level[q] = 0
    /\ u.HandlerFunc = handlerFunc

\* Whether HandlePing fails: mayfail with an unlucky draw, or mustfail.
PingFails(getParams, draw) ==
    (getParams.MayFail /\ draw = 1) \/ getParams.MustFail

\* Every registered chain holds DataProcessingMiddleware, so GetParams is set
\* when HandlePing reads it.
HandlePing(q) ==
    /\ AtCore(q, "HandlePing")
    /\ trace' = Visit(q, "call", "HandlePing", 0)
    /\ log' = Append(log, Event(q, RequestLogger(q), "INFO", "Preparing pong..."))
    /\ \E draw \in {0, 1} :
          IF PingFails(ggreq[q].GetParams, draw)
          THEN Return(q, EmptyGGResponse, RandomError)
          ELSE Return(q, GGResponse(PingResponse(ggreq[q].GetParams.Message), FALSE,
                                    NilPayload, 0, NoHeaders),
                      NoError)
    /\ UNCHANGED <<u, r, ggreq, requestID, w, storage>>

\* The errors TheStorage.Set may return ("" for none): the INSERT fails on a
\* key the table holds, and may fail for any other reason the database has.
SetErrors(rows, key) ==
    {"database is locked"}
    \cup (IF \E old \in rows : old.key = key
          THEN {"UNIQUE constraint failed: storage.key"}
          ELSE {""})

HandleSetValue(q) ==
    /\ AtCore(q, "HandleSetValue")
    /\ trace' = Visit(q, "call", "HandleSetValue", 0)
    /\ log' = Append(log, Event(q, u.Logger, "INFO", "Setting key"))
    /\ LET row == [key |-> ggreq[q].RequestData.Key, value |-> ggreq[q].RequestData.Value]
       IN \E dbError \in SetErrors(storage, row.key) :
            IF dbError # ""
            THEN /\ Return(q, EmptyGGResponse, DatabaseError(dbError))
                 /\ UNCHANGED storage
            ELSE /\ Return(q, GGResponse(SetValueResponse("ok"), FALSE, NilPayload, 0,
                                         NoHeaders),
                           NoError)
                 /\ storage' = storage \cup {row}
    /\ UNCHANGED <<u, r, ggreq, requestID, w>>

\* A handler written by the library's user.
UserHandler(q) ==
    /\ AtCore(q, "UserHandler")
    /\ trace' = Visit(q, "call", "UserHandler", 0)
    /\ \E res \in UserHandlerResults : Return(q, res.ggresp, res.err)
    /\ UNCHANGED <<u, r, ggreq, requestID, w, log, storage>>

\* ------------------------------------------------------ ServeHTTP, part 2

\* ServeHTTP that takes the envelope's status on an error only, and 200 for
\* every error envelope without one.
EnvelopeStatusNoDefault500(ggresp) ==
    IF ggresp.ErrorOccured /\ ggresp.StatusCode # 0 THEN ggresp.StatusCode ELSE StatusOK

\* The status ServeHTTP writes for an envelope returned without an error.
EnvelopeStatus(ggresp) ==
    IF ggresp.ErrorOccured
    THEN IF ggresp.StatusCode = 0 THEN StatusInternalServerError ELSE ggresp.StatusCode
    ELSE StatusOK

\* The order in which the header names are applied.  Go ranges over the map in
\* an unspecified order; the names are distinct after canonicalisation, so the
\* applications of different names commute.
HeaderOrder == <<"content-type", "X-Request-Id", "X-Custom">>

\* for headerName, headerValues := range ggresp.Headers { for _, headerValue :=
\* range headerValues { w.Header().Set(headerName, headerValue) } }: the Set calls.
RECURSIVE HeaderSetCalls(_, _)
HeaderSetCalls(headers, names) ==
    IF names = <<>> THEN <<>>
    ELSE [k \in 1..Len(headers[Head(names)]) |->
             [op |-> "Header.Set", name |-> CanonicalHeaderKey(Head(names)),
              value |-> headers[Head(names)][k], code |-> 0]]
         \o HeaderSetCalls(headers, Tail(names))

\* http.Header.Set replaces the values of the name by the one value.
RECURSIVE ApplyHeaderCalls(_, _)
ApplyHeaderCalls(header, setCalls) ==
    IF setCalls = <<>> THEN header
    ELSE ApplyHeaderCalls([header EXCEPT ![Head(setCalls).name] = <<Head(setCalls).value>>],
                          Tail(setCalls))

\* ServeHTTP that encodes the selected payload itself when the envelope holds
\* no serialized body.
ResponseBodyEncodedLate(ggresp) ==
    IF ggresp.serializedResponse # "" THEN ggresp.serializedResponse
    ELSE JSONMarshal(SelectedPayload(ggresp)).bytes

\* responseData = ggresp.serializedResponse: the body ServeHTTP writes for an
\* envelope that came without an error is what DataProcessingMiddleware left
\* in serializedResponse, empty when no serialization took place.
ResponseBody(ggresp) == ggresp.serializedResponse

\* ServeHTTP that answers a pipeline error with the status the envelope
\* carries, when it carries one.
FinalizeKeepsEnvelopeStatus(ggresp, handlerErr) ==
    IF handlerErr # NoError
    THEN IF IsMiddlewareProcessingError(handlerErr)
         THEN IF ggresp.isNil
              THEN [how |-> "panic", value |-> NilDereference, statusCode |-> 0,
                    responseData |-> ""]
              ELSE [how |-> "write", value |-> "",
                    statusCode |-> IF ggresp.StatusCode # 0 THEN ggresp.StatusCode
                                   ELSE handlerErr.StatusCode,
                    responseData |-> handlerErr.Message]
         ELSE [how |-> "panic", value |-> ErrorMessage(handlerErr), statusCode |-> 0,
               responseData |-> ""]
    ELSE [how |-> "write", value |-> "", statusCode |-> EnvelopeStatus(ggresp),
          responseData |-> ggresp.serializedResponse]

\* What ServeHTTP decides once the composed handler has returned: to panic, or
\* the status and the body to write.
Finalize(ggresp, handlerErr) ==
    IF handlerErr # NoError
    THEN IF IsMiddlewareProcessingError(handlerErr)
         THEN IF ggresp.isNil
              THEN [how |-> "panic", value |-> NilDereference, statusCode |-> 0,
                    responseData |-> ""]
              ELSE [how |-> "write", value |-> "", statusCode |-> handlerErr.StatusCode,
                    responseData |-> handlerErr.Message]
         ELSE [how |-> "panic", value |-> ErrorMessage(handlerErr), statusCode |-> 0,
               responseData |-> ""]
    ELSE [how |-> "write", value |-> "", statusCode |-> EnvelopeStatus(ggresp),
          responseData |-> ResponseBody(ggresp)]

\* ServeHTTP that writes the status line before it applies the headers.
WriterCallsStatusFirst(setCalls, statusCode, responseData) ==
    <<[op |-> "WriteHeader", name |-> "", value |-> "", code |-> statusCode]>>
    \o setCalls
    \o <<[op |-> "Write", name |-> "", value |-> responseData, code |-> 0]>>

\* The calls ServeHTTP makes on the response writer, in order: the header
\* applications, w.WriteHeader(statusCode), w.Write(responseData).
WriterCalls(setCalls, statusCode, responseData) ==
    setCalls
    \o <<[op |-> "WriteHeader", name |-> "", value |-> "", code |-> statusCode],
         [op |-> "Write", name |-> "", value |-> responseData, code |-> 0]>>

\* ServeHTTP from the return of the composed handler on: the status, the
\* headers, WriteHeader and Write.
ServeHTTPFinish(q) ==
    /\ pc[q] = "return"
    /\ level[q] = Depth + 1
    /\ trace' = Visit(q, "return", "ServeHTTP", level[q])
    /\ log' = IF Inner(q).err # NoError
              THEN Append(log, Event(q, RequestLogger(q), "WARN",
                                     "Handler returned uncaught error"))
              ELSE log
    /\ LET ggresp == Inner(q).ggresp
           final == Finalize(ggresp, Inner(q).err)
       IN IF final.how = "panic"
          THEN /\ Panic(q, final.value)
               /\ UNCHANGED w
          ELSE LET setCalls == HeaderSetCalls(ggresp.Headers, HeaderOrder)
                   written ==
                       [header |-> ApplyHeaderCalls(w[q].header, setCalls),
                        code |-> final.statusCode,
                        body |-> final.responseData,
                        calls |-> WriterCalls(setCalls, final.statusCode,
                                              final.responseData)]
               IN /\ w' = [w EXCEPT ![q] = written]
                  /\ \E writeError \in {"", "write: broken pipe"} :
                        IF writeError # ""
                        THEN Panic(q, writeError)
                        ELSE /\ pc' = [pc EXCEPT ![q] = "done"]
                             /\ UNCHANGED <<panicValue, ret, level>>
    /\ UNCHANGED <<u, r, ggreq, requestID, storage>>

\* ------------------------------------------------------------------- spec

Serve(q) ==
    \/ ServeHTTPBegin(q)
    \/ RequestIDMiddlewareCall(q)
    \/ RequestLoggingMiddlewareCall(q)
    \/ DataProcessingMiddlewareCall(q)
    \/ ErrorHandlingMiddlewareCall(q)
    \/ HandlePing(q)
    \/ HandleSetValue(q)
    \/ UserHandler(q)
    \/ ErrorHandlingMiddlewareReturn(q)
    \/ DataProcessingMiddlewareReturn(q)
    \/ RequestLoggingMiddlewareReturn(q)
    \/ RequestIDMiddlewareReturn(q)
    \/ ServeHTTPFinish(q)

Next == \E q \in Reqs : Serve(q)

Spec == Init /\ [][Next]_vars

\* ------------------------------------------------------ concurrent requests

\* The /ping registration of the example app.
ExampleAppPing ==
    [revision |-> 1, HandlerFunc |-> "HandlePing", Middlewares |-> StandardMiddlewares,
     errorHandlers |-> <<"HandleErrors">>, settings |-> NilSettings,
     Logger |-> [request_id |-> NoAttr]]

\* The query strings of the concurrent requests: none, mustfail=1, extra=1.
ConcurrentQueries ==
    {qs \in PingQueries :
        /\ qs.msg = Absent /\ qs.mayfail = Absent
        /\ qs.mustfail \in {Absent, "1"}
        /\ qs.extra = Absent \/ qs.mustfail = Absent}

\* The X-Request-Id header each client sends: none, a value of its own, and
\* (the first client) a header with an empty value.
ConcurrentRequestIDs(q) ==
    IF q = "r1" THEN {Absent, "abc", ""} ELSE {Absent, "xyz"}

\* The net/http server serves every connection in a goroutine of its own: two
\* calls of ServeHTTP on the one Uitzicht value run interleaved.
InitConcurrent ==
    /\ u = ExampleAppPing
    /\ r \in {f \in [Reqs -> [Body : {NoBody}, Query : ConcurrentQueries,
                               XRequestId : {Absent, "abc", "xyz", ""}]] :
                 \A q \in Reqs : f[q].XRequestId \in ConcurrentRequestIDs(q)}
    /\ pc = [q \in Reqs |-> "start"]
    /\ InitCommon

ServePing(q) ==
    \/ ServeHTTPBegin(q)
    \/ RequestIDMiddlewareCall(q)
    \/ RequestLoggingMiddlewareCall(q)
    \/ DataProcessingMiddlewareCall(q)
    \/ ErrorHandlingMiddlewareCall(q)
    \/ HandlePing(q)
    \/ ErrorHandlingMiddlewareReturn(q)
    \/ DataProcessingMiddlewareReturn(q)
    \/ RequestLoggingMiddlewareReturn(q)
    \/ RequestIDMiddlewareReturn(q)
    \/ ServeHTTPFinish(q)

NextConcurrent == \E q \in Reqs : ServePing(q)

SpecConcurrent == InitConcurrent /\ [][NextConcurrent]_vars

\* ------------------------------- second revision (handler.go, lines 254-477)

\* The second revision composes with slices.Backward, its
\* DataProcessingMiddleware takes no settings and decodes no query, its
\* ErrorHandlingMiddleware never returns an error and its ServeHTTP panics on
\* every error.  RequestIDMiddleware and RequestLoggingMiddleware are the same
\* in both revisions.

\* The lists registered with the second revision: those of the first, written
\* outermost first.
MiddlewareListsSecondRevision == {Backward(m) : m \in MiddlewareLists}

ConfigurationsSecondRevision ==
    {[revision |-> 2, HandlerFunc |-> h, Middlewares |-> m, errorHandlers |-> e,
      settings |-> NilSettings, Logger |-> [request_id |-> NoAttr]] :
        h \in {"HandleSetValue", "UserHandler"}, m \in MiddlewareListsSecondRevision,
        e \in ErrorHandlerLists}

InitSecondRevision ==
    /\ u \in ConfigurationsSecondRevision
    /\ \E req \in RequestsFor(u.HandlerFunc) :
          r = [q \in Reqs |-> IF q = "r1" THEN req ELSE NoRequest]
    /\ pc = [q \in Reqs |-> IF q = "r1" THEN "start" ELSE "unused"]
    /\ InitCommon

DataProcessingMiddlewareCallSecondRevision(q) ==
    /\ AtCall(q, "DataProcessing")
    /\ LET body == DecodeBody(TReqBody(u.HandlerFunc), r[q].Body)
       IN /\ trace' = [trace EXCEPT ![q] =
                          @ \o <<[ev |-> "call", who |-> "DataProcessing", n |-> level[q]]>>
                            \o (IF body.how # "panic" /\ body.err = "" THEN <<>>
                                ELSE <<[ev |-> "return", who |-> "DataProcessing",
                                        n |-> level[q]]>>)]
          /\ IF body.how = "panic"
             THEN /\ Panic(q, NilDereference)
                  /\ UNCHANGED <<ggreq, log>>
             ELSE IF body.err # ""
             THEN /\ log' = Append(log, Event(q, [request_id |-> NoAttr], "INFO",
                                               "Error decoding request body"))
                  /\ Return(q, NilGGResponse, RequestSerializationError(body.err))
                  /\ UNCHANGED ggreq
             ELSE /\ ggreq' = [ggreq EXCEPT ![q].RequestData = body.value]
                  /\ Descend(q)
                  /\ UNCHANGED log
    /\ UNCHANGED <<u, r, requestID, w, storage>>

DataProcessingMiddlewareReturnSecondRevision(q) ==
    /\ AtReturn(q, "DataProcessing")
    /\ trace' = Visit(q, "return", "DataProcessing", level[q])
    /\ LET ggresp == Inner(q).ggresp
           err == Inner(q).err
       IN IF err # NoError
          THEN \* panic(err)
               Panic(q, ErrorMessage(err))
          ELSE LET m == JSONMarshal(SelectedPayload(ggresp))
               IN IF m.err # ""
                  THEN Return(q, ggresp, RequestSerializationError(m.err))
                  ELSE Return(q, [ggresp EXCEPT
                                     !.serializedResponse = m.bytes,
                                     !.Headers["content-type"] = <<"application/json">>],
                              err)
    /\ UNCHANGED <<u, r, ggreq, requestID, w, log, storage>>

\* if statusCode == 0 { statusCode = http.StatusInternalServerError }
DefaultedStatus(translated) ==
    [translated EXCEPT !.statusCode =
        IF translated.statusCode = 0 THEN StatusInternalServerError ELSE @]

ErrorHandlingMiddlewareReturnSecondRevision(q) ==
    /\ AtReturn(q, "ErrorHandling")
    /\ LET ggresp == Inner(q).ggresp
           err == Inner(q).err
           translated == RunErrorHandlers(u.errorHandlers, 1, err, ErrorHandlersStart)
       IN IF err = NoError
          THEN /\ Return(q, ggresp, NoError)
               /\ trace' = Visit(q, "return", "ErrorHandling", level[q])
               /\ UNCHANGED log
          ELSE /\ log' = log \o TranslatorEvents(q, RequestLogger(q), u.errorHandlers,
                                                 translated.invoked, err)
               /\ trace' = [trace EXCEPT ![q] =
                               @ \o TranslatorVisits(u.errorHandlers, translated.invoked)
                                 \o <<[ev |-> "return", who |-> "ErrorHandling",
                                       n |-> level[q]]>>]
               /\ IF ggresp.isNil
                  THEN \* ggresp.ErrorData = errorData on a nil ggresp
                       Panic(q, NilDereference)
                  ELSE Return(q, Adopt(ggresp, DefaultedStatus(translated)), NoError)
    /\ UNCHANGED <<u, r, ggreq, requestID, w, storage>>

ServeHTTPFinishSecondRevision(q) ==
    /\ pc[q] = "return"
    /\ level[q] = Depth + 1
    /\ trace' = Visit(q, "return", "ServeHTTP", level[q])
    /\ LET ggresp == Inner(q).ggresp
           handlerErr == Inner(q).err
       IN IF handlerErr # NoError
          THEN \* panic(handlerErr)
               /\ Panic(q, ErrorMessage(handlerErr))
               /\ UNCHANGED w
          ELSE LET setCalls == HeaderSetCalls(ggresp.Headers, HeaderOrder)
                   statusCode == EnvelopeStatus(ggresp)
                   written ==
                       [header |-> ApplyHeaderCalls(w[q].header, setCalls),
                        code |-> statusCode,
                        body |-> ggresp.serializedResponse,
                        calls |-> WriterCalls(setCalls, statusCode,
                                              ggresp.serializedResponse)]
               IN /\ w' = [w EXCEPT ![q] = written]
                  /\ \E writeError \in {"", "write: broken pipe"} :
                        IF writeError # ""
                        THEN Panic(q, writeError)
                        ELSE /\ pc' = [pc EXCEPT ![q] = "done"]
                             /\ UNCHANGED <<panicValue, ret, level>>
    /\ UNCHANGED <<u, r, ggreq, requestID, log, storage>>

ServeSecondRevision(q) ==
    \/ ServeHTTPBegin(q)
    \/ RequestIDMiddlewareCall(q)
    \/ RequestLoggingMiddlewareCall(q)
    \/ DataProcessingMiddlewareCallSecondRevision(q)
    \/ ErrorHandlingMiddlewareCall(q)
    \/ HandleSetValue(q)
    \/ UserHandler(q)
    \/ ErrorHandlingMiddlewareReturnSecondRevision(q)
    \/ DataProcessingMiddlewareReturnSecondRevision(q)
    \/ RequestLoggingMiddlewareReturn(q)
    \/ RequestIDMiddlewareReturn(q)
    \/ ServeHTTPFinishSecondRevision(q)

NextSecondRevision == \E q \in Reqs : ServeSecondRevision(q)

SpecSecondRevision == InitSecondRevision /\ [][NextSecondRevision]_vars

\* ============================================================= properties

\* ServeHTTP has ended for the request, by returning or by panicking.
Ended(q) == pc[q] \in {"done", "panic"}

\* The wrapper (or handler) named who was entered for the request.
Entered(q, who) ==
    \E k \in 1..Len(trace[q]) : trace[q][k].ev = "call" /\ trace[q][k].who = who

\* The wrapper named who has finished for the request, by returning or by
\* panicking.
Left(q, who) ==
    \E k \in 1..Len(trace[q]) : trace[q][k].ev = "return" /\ trace[q][k].who = who

\* The layer of a middleware in the composed handler.
LevelOf(who) == CHOOSE i \in 1..Depth : Layer(i) = who

\* What the core handler returned.
CoreRet(q) == ret[q][0]

\* What the composed handler returned to ServeHTTP.
ComposedRet(q) == ret[q][Depth]

\* What ErrorHandlingMiddleware received from the handler it wraps, and what
\* it returned.
EHInput(q) == ret[q][LevelOf("ErrorHandling") - 1]
EHOutput(q) == ret[q][LevelOf("ErrorHandling")]

\* The translator calls made for the request, in order.
TranslatorCalls(q) == SelectSeq(trace[q], LAMBDA e : e.ev = "translate")

\* The index of the first translator of the list that returns a non-zero
\* status for err; 0 when all decline.
FirstMatch(errorHandlers, err) ==
    LET S == {i \in 1..Len(errorHandlers) :
                 ApplyErrorHandler(errorHandlers[i], err).statusCode # 0}
    IN IF S = {} THEN 0 ELSE CHOOSE i \in S : \A j \in S : i <= j

StandardChain == u.Middlewares = StandardMiddlewares

\* The request carries a body that is no JSON value of the declared type.
MalformedBody(q) == r[q].Body.kind = "reader" /\ r[q].Body.bytes \in {"{", "[1]"}

\* C1 (as claimed): in the standard chain a request whose body is present but
\* is not valid JSON for the body type ends with a response of status 400.
C1_MalformedBodyAnswered400 ==
    \A q \in Reqs :
        (StandardChain /\ MalformedBody(q) /\ Ended(q)) => w[q].code = StatusBadRequest

\* DataProcessingMiddleware cannot decode the body or the query of the request.
DecodeFails(q) ==
    LET body == DecodeBody(TReqBody(u.HandlerFunc), r[q].Body)
        errs == SchemaErrors(TGetParams(u.HandlerFunc), r[q].Query,
                             IgnoreUnknownKeys(u.settings))
    IN body.how # "panic" /\ (body.err # "" \/ errs # {})

\* C2: when DataProcessingMiddleware fails to decode the body or the query, no
\* layer inside it is entered, the core handler does not run and returns
\* nothing, and no row is written to the storage.
C2_DecodeFailureSkipsInner ==
    \A q \in Reqs :
        (Entered(q, "DataProcessing") /\ DecodeFails(q)) =>
            /\ \A k \in 1..Len(trace[q]) :
                  trace[q][k].ev = "call" => trace[q][k].n >= LevelOf("DataProcessing")
            /\ ~CoreRet(q).done
            /\ storage = {}

C2_Witness ==
    \E q \in Reqs :
        /\ Ended(q)
        /\ Left(q, "DataProcessing")
        /\ DecodeFails(q)
        /\ u.HandlerFunc = "HandleSetValue"
        /\ r[q].Query.extra # Absent
        /\ r[q].Body = BodyOf(ValidSetValueBody)

\* The core handler returned a non-nil envelope with a domain error that a
\* registered translator maps to a non-zero status.
TranslatedDomainError(q) ==
    /\ CoreRet(q).done
    /\ ~CoreRet(q).ggresp.isNil
    /\ CoreRet(q).err # NoError
    /\ FirstMatch(u.errorHandlers, CoreRet(q).err) # 0

TeapotBody ==
    "{\"code\":\"TEAPOT\",\"message\":\"Random error\",\"details\":{\"reason\":\"destiny\"}}"

\* C3: in the standard chain a domain error returned with a non-nil envelope
\* and mapped by a translator to (s, p) is answered with status s and the JSON
\* encoding of p; /ping with mustfail=1 is answered 418 TEAPOT whatever
\* mayfail and the random draw are.
C3_TranslatedErrorAnswered ==
    \A q \in Reqs :
        /\ (StandardChain /\ TranslatedDomainError(q) /\ Ended(q)) =>
              LET hs == u.errorHandlers
                  t == ApplyErrorHandler(hs[FirstMatch(hs, CoreRet(q).err)], CoreRet(q).err)
              IN /\ w[q].code = t.statusCode
                 /\ w[q].body = JSONMarshal(t.errorData).bytes
        /\ (/\ StandardChain
            /\ u.HandlerFunc = "HandlePing"
            /\ "HandleErrors" \in {u.errorHandlers[i] : i \in 1..Len(u.errorHandlers)}
            /\ r[q].Query.mustfail = "1"
            /\ CoreRet(q).done
            /\ Ended(q)) =>
              /\ w[q].code = StatusTeapot
              /\ w[q].body = TeapotBody

C3_Witness ==
    \E q \in Reqs :
        /\ StandardChain
        /\ pc[q] = "done"
        /\ u.HandlerFunc = "HandlePing"
        /\ r[q].Query.mustfail = "1"
        /\ r[q].Query.mayfail = "1"
        /\ TranslatedDomainError(q)
        /\ w[q].code = StatusTeapot

\* The core handler returned a success envelope whose payload json.Marshal
\* can encode, and no error.
SuccessEnvelope(q) ==
    /\ CoreRet(q).done
    /\ CoreRet(q).err = NoError
    /\ ~CoreRet(q).ggresp.isNil
    /\ ~CoreRet(q).ggresp.ErrorOccured
    /\ CoreRet(q).ggresp.StatusCode = 0
    /\ CoreRet(q).ggresp.ResponseData # NilPayload
    /\ JSONMarshal(CoreRet(q).ggresp.ResponseData).err = ""

\* C4: in the standard chain a success envelope (no error, status 0, a non-nil
\* payload that has a JSON encoding) is answered with status 200, the JSON
\* encoding of the payload as body (for /ping the msg value, or "pong"), and
\* the headers Content-Type: application/json and X-Request-Id.
C4_SuccessAnswered200 ==
    \A q \in Reqs :
        (StandardChain /\ SuccessEnvelope(q) /\ Ended(q)) =>
            /\ w[q].code = StatusOK
            /\ w[q].body = JSONMarshal(CoreRet(q).ggresp.ResponseData).bytes
            /\ w[q].header["Content-Type"] = <<"application/json">>
            /\ w[q].header["X-Request-Id"] # <<>>
            /\ u.HandlerFunc = "HandlePing" =>
                  w[q].body = "{\"msg\":\""
                              \o (IF r[q].Query.msg = Absent THEN "pong" ELSE r[q].Query.msg)
                              \o "\"}"

C4_Witness ==
    \E q \in Reqs :
        /\ StandardChain
        /\ SuccessEnvelope(q)
        /\ pc[q] = "done"
        /\ u.HandlerFunc = "HandlePing"
        /\ r[q].Query.msg = Absent
        /\ w[q].body = "{\"msg\":\"pong\"}"

\* ErrorHandlingMiddleware has finished for the request, and the handler it
\* wraps had returned an error.
HandledError(q) == Left(q, "ErrorHandling") /\ EHInput(q).err # NoError

Propagated(q) == [done |-> TRUE, ggresp |-> EHInput(q).ggresp, err |-> EHInput(q).err]

\* C6 (as claimed): with an empty translator list an error of the wrapped
\* handler is returned unmodified, with the envelope as it came.
C6_EmptyListPropagates ==
    \A q \in Reqs :
        (HandledError(q) /\ u.errorHandlers = <<>>) => EHOutput(q) = Propagated(q)

\* Every translator of the (non-empty) list returns status 0 for err.
AllDecline(errorHandlers, err) ==
    /\ errorHandlers # <<>>
    /\ \A i \in 1..Len(errorHandlers) :
          ApplyErrorHandler(errorHandlers[i], err).statusCode = 0

\* C7: when the list is non-empty and every translator declines, the error is
\* returned unmodified, with the envelope as the wrapped handler returned it.
C7_AllDeclinePropagates ==
    \A q \in Reqs :
        (HandledError(q) /\ AllDecline(u.errorHandlers, EHInput(q).err)) =>
            EHOutput(q) = Propagated(q)

C7_Witness ==
    \E q \in Reqs :
        /\ HandledError(q)
        /\ AllDecline(u.errorHandlers, EHInput(q).err)
        /\ Len(u.errorHandlers) = 2
        /\ ~EHInput(q).ggresp.isNil
        /\ EHOutput(q).err = OtherError

\* The composed handler returned to ServeHTTP an error that is no
\* MiddlewareProcessingError.
UncaughtDomainError(q) ==
    /\ ComposedRet(q).done
    /\ ComposedRet(q).err # NoError
    /\ ~IsMiddlewareProcessingError(ComposedRet(q).err)

\* C8 (as claimed): a domain error that reaches ServeHTTP ends the request with
\* a response of the 500 class.
C8_UncaughtErrorAnswered5xx ==
    \A q \in Reqs :
        (UncaughtDomainError(q) /\ Ended(q)) => w[q].code \in 500..599

\* The composed handler returned an envelope and no error.
EnvelopeReturned(q) ==
    /\ ComposedRet(q).done
    /\ ComposedRet(q).err = NoError
    /\ ~ComposedRet(q).ggresp.isNil

\* C9 (as claimed): a non-zero StatusCode of an envelope without ErrorOccured
\* is the status written.
C9_SuccessStatusHonoured ==
    \A q \in Reqs :
        (/\ EnvelopeReturned(q)
         /\ Ended(q)
         /\ ~ComposedRet(q).ggresp.ErrorOccured
         /\ ComposedRet(q).ggresp.StatusCode # 0) =>
            w[q].code = ComposedRet(q).ggresp.StatusCode

\* C10: for an envelope returned without an error the status written is 500
\* if ErrorOccured and StatusCode is 0, the StatusCode if ErrorOccured and it
\* is non-zero, and 200 if not ErrorOccured and StatusCode is 0.
C10_StatusDefaults ==
    \A q \in Reqs :
        (EnvelopeReturned(q) /\ Ended(q)) =>
            LET e == ComposedRet(q).ggresp
            IN /\ (e.ErrorOccured /\ e.StatusCode = 0) =>
                     w[q].code = StatusInternalServerError
               /\ (e.ErrorOccured /\ e.StatusCode # 0) => w[q].code = e.StatusCode
               /\ (~e.ErrorOccured /\ e.StatusCode = 0) => w[q].code = StatusOK

C10_Witness ==
    \E q \in Reqs :
        /\ EnvelopeReturned(q)
        /\ pc[q] = "done"
        /\ ComposedRet(q).ggresp.ErrorOccured
        /\ ComposedRet(q).ggresp.StatusCode = 0
        /\ w[q].code = StatusInternalServerError

\* A response was written for the request: WriteHeader has been called.
ResponseWritten(q) == w[q].code # 0

\* The values the response carries under X-Request-Id.
ResponseRequestID(q) == w[q].header[CanonicalHeaderKey("X-Request-Id")]

\* C11: for a request that carries an X-Request-Id header and passes through
\* RequestIDMiddleware, the id picked is the incoming value and every response
\* written carries exactly that value under X-Request-Id; a new identifier is
\* picked only for a request without the header.
C11_IncomingRequestIDEchoed ==
    \A q \in Reqs :
        Entered(q, "RequestID") =>
            /\ r[q].XRequestId # Absent =>
                  /\ requestID[q] = r[q].XRequestId
                  /\ ggreq[q].ctxRequestID = r[q].XRequestId
                  /\ ResponseWritten(q) => ResponseRequestID(q) = <<r[q].XRequestId>>
            /\ requestID[q] \in UUIDs => r[q].XRequestId = Absent

C11_Witness ==
    \E q \in Reqs :
        /\ pc[q] = "done"
        /\ Left(q, "RequestID")
        /\ r[q].XRequestId = "abc"
        /\ ComposedRet(q).err # NoError
        /\ ResponseRequestID(q) = <<"abc">>

\* C12: in the standard chain every response ServeHTTP writes carries the
\* X-Request-Id header with the id RequestIDMiddleware picked, whether the
\* composed handler returned an envelope or a pipeline error.
C12_EveryResponseCarriesRequestID ==
    \A q \in Reqs :
        (StandardChain /\ ResponseWritten(q)) =>
            /\ ResponseRequestID(q) # <<>>
            /\ ResponseRequestID(q) = <<requestID[q]>>

\* A response to a serialization failure that carries the id.
C12_Witness ==
    \E q \in Reqs :
        /\ StandardChain
        /\ pc[q] = "done"
        /\ CoreRet(q).done
        /\ CoreRet(q).err = NoError
        /\ JSONMarshal(SelectedPayload(CoreRet(q).ggresp)).err # ""
        /\ IsMiddlewareProcessingError(ComposedRet(q).err)
        /\ ResponseRequestID(q) = <<requestID[q]>>

\* The query string carries a key the handler's query-parameter type does not
\* declare.
UndeclaredKey(q) ==
    \E k \in QueryKeys :
        r[q].Query[k] # Absent /\ k \notin SchemaFields(TGetParams(u.HandlerFunc))

\* The body of the request is skipped or decoded without an error.
BodyDecodes(q) ==
    LET body == DecodeBody(TReqBody(u.HandlerFunc), r[q].Body)
    IN body.how # "panic" /\ body.err = ""

\* Every declared query key the request carries converts to its field's type.
DeclaredKeysConvert(q) ==
    SchemaErrors(TGetParams(u.HandlerFunc), r[q].Query, TRUE) = {}

\* No ErrorHandlingMiddleware stands outside DataProcessingMiddleware: what
\* DataProcessingMiddleware returns reaches ServeHTTP with its error unchanged.
CodecOutsideTranslators ==
    \A i \in 1..Depth : Layer(i) = "ErrorHandling" => i < LevelOf("DataProcessing")

\* The core handler was invoked for the request.
CoreInvoked(q) == Entered(q, u.HandlerFunc)

C14_NilSettingsIgnoreUnknownKeys ==
    \A q \in Reqs :
        (/\ u.settings = NilSettings
         /\ UndeclaredKey(q)
         /\ BodyDecodes(q)
         /\ DeclaredKeysConvert(q)
         /\ Ended(q)) =>
            /\ CoreInvoked(q)
            /\ CoreRet(q).done

\* The request carries no body: http.NoBody, a nil Body, or an empty stream.
CarriesNoBody(q) ==
    r[q].Body.kind \in {"NoBody", "nil"}
        \/ (r[q].Body.kind = "reader" /\ r[q].Body.bytes = "")

\* The query string of the request decodes under the registered settings.
QueryDecodes(q) ==
    SchemaErrors(TGetParams(u.HandlerFunc), r[q].Query, IgnoreUnknownKeys(u.settings)) = {}

\* C15 (as claimed): for a request without a body DataProcessingMiddleware
\* neither fails nor panics: once it has run, RequestData is the zero value of
\* the body type and (the query decoding) the handler it wraps has been called.
C15_NoBodyLeavesZeroValue ==
    \A q \in Reqs :
        (CarriesNoBody(q) /\ Entered(q, "DataProcessing")) =>
            /\ ggreq[q].RequestData = ZeroBody(TReqBody(u.HandlerFunc))
            /\ QueryDecodes(q) =>
                  /\ ~(Left(q, "DataProcessing") /\ ~CoreInvoked(q))
                  /\ Ended(q) => CoreInvoked(q)

\* The JSON encoding of the payload an envelope selects by ErrorOccured.
SelectedJSON(ggresp) == JSONMarshal(SelectedPayload(ggresp)).bytes

\* C16 (as claimed): in the standard chain the body of every response written
\* is the JSON encoding of the payload the final envelope selects
\* (ResponseData when ErrorOccured is false, ErrorData when it is true), also
\* when the response comes from a MiddlewareProcessingError.
C16_BodyIsSelectedPayload ==
    \A q \in Reqs :
        (StandardChain /\ ResponseWritten(q)) =>
            /\ JSONMarshal(SelectedPayload(ComposedRet(q).ggresp)).err = ""
            /\ w[q].body = SelectedJSON(ComposedRet(q).ggresp)

\* What DataProcessingMiddleware received from the handler it wraps, and what
\* it returned.
DPInput(q) == ret[q][LevelOf("DataProcessing") - 1]
DPOutput(q) == ret[q][LevelOf("DataProcessing")]

\* The handler wrapped by DataProcessingMiddleware returned an envelope whose
\* selected payload json.Marshal cannot encode.
SerializationFails(q) ==
    /\ DPInput(q).done
    /\ DPInput(q).err = NoError
    /\ ~DPInput(q).ggresp.isNil
    /\ JSONMarshal(SelectedPayload(DPInput(q).ggresp)).err # ""

ResponseContentType(q) == w[q].header[CanonicalHeaderKey("content-type")]

\* C18 (as claimed): every response written with a non-empty body carries
\* content-type: application/json, the responses built from a
\* MiddlewareProcessingError included.
C18_BodyHasJSONContentType ==
    \A q \in Reqs :
        (ResponseWritten(q) /\ w[q].body # "") =>
            ResponseContentType(q) = <<"application/json">>

\* DataProcessingMiddleware serialized the payload of the envelope it received
\* and returned the envelope.
Serialized(q) ==
    /\ Left(q, "DataProcessing")
    /\ DPInput(q).done
    /\ DPOutput(q).done
    /\ DPOutput(q).err = NoError

\* C19 (as claimed): an envelope that reaches DataProcessingMiddleware with a
\* content-type header set leaves it with that value; application/json is set
\* only when the header is absent.
C19_ContentTypeKept ==
    \A q \in Reqs :
        Serialized(q) =>
            DPOutput(q).ggresp.Headers["content-type"]
                = IF DPInput(q).ggresp.Headers["content-type"] # <<>>
                  THEN DPInput(q).ggresp.Headers["content-type"]
                  ELSE <<"application/json">>

\* C20 (as claimed): every header name of the final envelope reaches the
\* response with all its values, in their order.
C20_AllHeaderValuesWritten ==
    \A q \in Reqs :
        (ResponseWritten(q) /\ ~ComposedRet(q).ggresp.isNil) =>
            \A h \in HeaderNames :
                ComposedRet(q).ggresp.Headers[h] # <<>> =>
                    w[q].header[CanonicalHeaderKey(h)] = ComposedRet(q).ggresp.Headers[h]

\* The positions of the calls of an operation on the response writer.
CallsOf(q, op) == {k \in 1..Len(w[q].calls) : w[q].calls[k].op = op}

\* C21: the header applications precede WriteHeader, which precedes Write;
\* WriteHeader and Write are each called at most once; nothing is written to
\* the response writer before the composed handler has returned.
C21_HeadersStatusBodyOrder ==
    \A q \in Reqs :
        /\ Cardinality(CallsOf(q, "WriteHeader")) <= 1
        /\ Cardinality(CallsOf(q, "Write")) <= 1
        /\ \A h \in CallsOf(q, "Header.Set") : \A s \in CallsOf(q, "WriteHeader") : h < s
        /\ \A s \in CallsOf(q, "WriteHeader") : \A b \in CallsOf(q, "Write") : s < b
        /\ CallsOf(q, "Write") # {} => CallsOf(q, "WriteHeader") # {}
        /\ (w[q] # NewResponseWriter) => (ComposedRet(q).done /\ Left(q, "ServeHTTP"))

C21_Witness ==
    \E q \in Reqs :
        /\ pc[q] = "done"
        /\ Cardinality(CallsOf(q, "Header.Set")) >= 3
        /\ Cardinality(CallsOf(q, "WriteHeader")) = 1
        /\ Cardinality(CallsOf(q, "Write")) = 1

\* The positions in the log of the events of a request with a message.
EventsOf(q, msg) == {k \in 1..Len(log) : log[k].by = q /\ log[k].msg = msg}

\* A layer inside RequestLoggingMiddleware has been entered for the request.
InsideLoggingEntered(q) ==
    \E k \in 1..Len(trace[q]) :
        trace[q][k].ev = "call" /\ trace[q][k].n < LevelOf("RequestLogging")

\* What RequestLoggingMiddleware received from the handler it wraps.
RLInput(q) == ret[q][LevelOf("RequestLogging") - 1]

\* C22: a request that passes through RequestLoggingMiddleware has exactly one
\* "New request" event, emitted before anything inside the middleware runs,
\* and, once the inner handler has returned (with an error or without),
\* exactly one "Request finished" event, which comes after the start event;
\* there is no "Request finished" event before the inner handler has returned.
C22_OneStartOneFinish ==
    \A q \in Reqs :
        /\ ~Entered(q, "RequestLogging") =>
              EventsOf(q, "New request") = {} /\ EventsOf(q, "Request finished") = {}
        /\ Entered(q, "RequestLogging") =>
              /\ Cardinality(EventsOf(q, "New request")) = 1
              /\ Cardinality(EventsOf(q, "Request finished"))
                    = IF Left(q, "RequestLogging") THEN 1 ELSE 0
              /\ Left(q, "RequestLogging") => RLInput(q).done
              /\ \A s \in EventsOf(q, "New request") :
                    \A f \in EventsOf(q, "Request finished") : s < f
              /\ \A s \in EventsOf(q, "New request") :
                    \A k \in 1..Len(log) :
                        (log[k].by = q /\ log[k].msg \in {"Preparing pong...", "Setting key",
                                                          "Going to handle error",
                                                          "Error decoding request body"})
                            => s < k

C22_Witness ==
    \E q \in Reqs :
        /\ Ended(q)
        /\ Left(q, "RequestLogging")
        /\ RLInput(q).err # NoError
        /\ Cardinality(EventsOf(q, "New request")) = 1
        /\ Cardinality(EventsOf(q, "Request finished")) = 1

\* A translator matched the error the handler wrapped by
\* ErrorHandlingMiddleware returned together with a non-nil envelope.
MatchedWithEnvelope(q) ==
    /\ Left(q, "ErrorHandling")
    /\ EHInput(q).err # NoError
    /\ ~EHInput(q).ggresp.isNil
    /\ FirstMatch(u.errorHandlers, EHInput(q).err) # 0

\* C23: when a translator matches with (s, p) an error returned with a non-nil
\* envelope, ErrorHandlingMiddleware returns that envelope with ErrorOccured
\* true, StatusCode s and ErrorData p, its other fields as they were, and a nil
\* error; RequestLogging and RequestID outside it pass the nil error on.
C23_MatchClearsError ==
    \A q \in Reqs :
        MatchedWithEnvelope(q) =>
            LET hs == u.errorHandlers
                t == ApplyErrorHandler(hs[FirstMatch(hs, EHInput(q).err)], EHInput(q).err)
            IN /\ EHOutput(q).done
               /\ EHOutput(q).err = NoError
               /\ EHOutput(q).ggresp.ErrorOccured
               /\ EHOutput(q).ggresp.StatusCode = t.statusCode
               /\ EHOutput(q).ggresp.ErrorData = t.errorData
               /\ EHOutput(q).ggresp.ResponseData = EHInput(q).ggresp.ResponseData
               /\ EHOutput(q).ggresp.Headers = EHInput(q).ggresp.Headers
               /\ \A i \in 1..Depth :
                     (/\ i > LevelOf("ErrorHandling")
                      /\ Layer(i) \in {"RequestLogging", "RequestID"}
                      /\ ret[q][i].done) => ret[q][i].err = NoError

C23_Witness ==
    \E q \in Reqs :
        /\ MatchedWithEnvelope(q)
        /\ pc[q] = "done"
        /\ EHInput(q).err = DatabaseError("locked")
        /\ EHInput(q).ggresp.StatusCode = 201
        /\ EHOutput(q).ggresp.StatusCode = StatusFailedDependency
        /\ EHOutput(q).err = NoError

\* The entries and exits of the layers in the trace of a request (the
\* translator calls left out).
Passage(q) == SelectSeq(trace[q], LAMBDA e : e.ev \in {"call", "return"})

\* The layers are entered from the outside in without a gap and left from the
\* inside out: every entry but ServeHTTP's directly follows the entry of the
\* layer around it, and exits come in ascending order of the layers.
ProperlyNested(q) ==
    LET t == Passage(q)
    IN /\ \A k \in 1..Len(t) :
             t[k].ev = "call" =>
                IF k = 1 THEN t[k].who = "ServeHTTP"
                ELSE t[k - 1].ev = "call" /\ t[k - 1].n = t[k].n + 1
       /\ \A k, l \in 1..Len(t) :
             (k < l /\ t[k].ev = "return" /\ t[l].ev = "return") => t[k].n < t[l].n
       /\ \A l \in 1..Len(t) :
             t[l].ev = "return" => \E k \in 1..(l - 1) : t[k].ev = "call" /\ t[k].n = t[l].n

\* C24: the first revision's forward loop makes Middlewares[0] the innermost
\* wrapper and the last element the outermost: the layer at depth n of every
\* request is the n-th element of the list (counting from 1), the core handler
\* is below layer 1, the layers are entered from the last index down to the
\* core handler and left from index 0 up.
C24_ForwardLoopNesting ==
    \A q \in Reqs :
        LET t == Passage(q)
        IN /\ ProperlyNested(q)
           /\ \A k \in 1..Len(t) :
                 /\ t[k].n \in 0..(Len(u.Middlewares) + 1)
                 /\ t[k].n \in 1..Len(u.Middlewares) => t[k].who = u.Middlewares[t[k].n]
                 /\ t[k].n = 0 => t[k].who = u.HandlerFunc
                 /\ t[k].n = Len(u.Middlewares) + 1 => t[k].who = "ServeHTTP"

C24_Witness ==
    \E q \in Reqs :
        /\ pc[q] = "done"
        /\ StandardChain
        /\ CoreInvoked(q)
        /\ Len(Passage(q)) = 11
        /\ Passage(q)[2].who = "RequestID"
        /\ Passage(q)[5].who = "ErrorHandling"
        /\ Passage(q)[7].who = "ErrorHandling"
        /\ Passage(q)[10].who = "RequestID"

\* A list read from its last element to its first.
RECURSIVE Reversed(_)
Reversed(s) == IF s = <<>> THEN <<>> ELSE Append(Reversed(Tail(s)), Head(s))

\* The request is served by the second revision of ServeHTTP.
SecondRevision == u.revision = 2

\* C25: the backward loop of the second revision builds from a list the
\* nesting the forward loop of the first revision builds from the reversed
\* list (and the other way round), and the two loops disagree on a list that
\* is not its own reverse: in a run of the second revision the layer at depth
\* n is the n-th wrapper of the first revision's composition of the reversed
\* list, and the layers are entered and left in that order.
C25_RevisionsComposeOppositely ==
    \A q \in Reqs :
        SecondRevision =>
            LET L == u.Middlewares
                t == Passage(q)
            IN /\ ComposeBackward(L) = Compose(Reversed(L))
               /\ Compose(L) = ComposeBackward(Reversed(L))
               /\ L # Reversed(L) => ComposeBackward(L) # Compose(L)
               /\ ProperlyNested(q)
               /\ \A k \in 1..Len(t) :
                     t[k].n \in 1..Len(L) => t[k].who = Compose(Reversed(L))[t[k].n]

C25_Witness ==
    \E q \in Reqs :
        /\ SecondRevision
        /\ pc[q] = "done"
        /\ u.Middlewares = Reversed(StandardMiddlewares)
        /\ CoreInvoked(q)
        /\ Len(Passage(q)) = 11
        /\ Passage(q)[2].who = "RequestID"
        /\ Passage(q)[5].who = "ErrorHandling"
        /\ Passage(q)[10].who = "RequestID"

\* C26 (as claimed): in the second revision, when the inner handler returns an
\* error with an envelope and no translator returns a non-zero status (all
\* decline, or there is none), ErrorHandlingMiddleware returns the envelope
\* with ErrorOccured true and StatusCode 500, and a nil error.
C26_UnmatchedErrorDefaults500 ==
    \A q \in Reqs :
        (/\ SecondRevision
         /\ Left(q, "ErrorHandling")
         /\ EHInput(q).err # NoError
         /\ ~EHInput(q).ggresp.isNil
         /\ FirstMatch(u.errorHandlers, EHInput(q).err) = 0) =>
            /\ EHOutput(q).done
            /\ EHOutput(q).err = NoError
            /\ EHOutput(q).ggresp.ErrorOccured
            /\ EHOutput(q).ggresp.StatusCode = StatusInternalServerError

\* The "New request" and "Request finished" events of the request.
BoundaryEvents(q) == EventsOf(q, "New request") \cup EventsOf(q, "Request finished")

\* C27 (as claimed): in the standard chain the "New request" and "Request
\* finished" events of a request carry a request_id field that is never the
\* empty string and equals the X-Request-Id value of the response written for
\* the request.
C27_EventsCarryNonEmptyRequestID ==
    \A q \in Reqs :
        StandardChain =>
            \A k \in BoundaryEvents(q) :
                /\ log[k].request_id \notin {NoAttr, ""}
                /\ ResponseWritten(q) => ResponseRequestID(q) = <<log[k].request_id>>

\* C27 (amended): in the standard chain the "New request" and "Request
\* finished" events of a request carry a request_id field equal to the id
\* RequestIDMiddleware stored in the context, which is the X-Request-Id value
\* of the response written for the request; the field is the empty string
\* exactly when the request came with an X-Request-Id header of empty value.
C27_EventsCarryResponseRequestID ==
    \A q \in Reqs :
        StandardChain =>
            \A k \in BoundaryEvents(q) :
                /\ log[k].request_id = requestID[q]
                /\ log[k].request_id # NoAttr
                /\ log[k].request_id = "" <=> r[q].XRequestId = ""
                /\ ResponseWritten(q) => ResponseRequestID(q) = <<log[k].request_id>>

\* A request of the standard chain that came without X-Request-Id has ended:
\* both events and the response carry the generated id.
C27_Witness ==
    \E q \in Reqs :
        /\ StandardChain /\ pc[q] = "done" /\ ResponseWritten(q)
        /\ r[q].XRequestId = Absent
        /\ EventsOf(q, "New request") # {} /\ EventsOf(q, "Request finished") # {}
        /\ \A k \in BoundaryEvents(q) :
              log[k].request_id \in UUIDs /\ ResponseRequestID(q) = <<log[k].request_id>>

\* What the /ping registration answers to a request, from the request alone.
PingAnswer(req) ==
    CASE req.Query.extra # Absent ->
            [written |-> TRUE, code |-> StatusBadRequest,
             body |-> "schema: invalid path \"extra\""]
      [] req.Query.mustfail = "1" ->
            [written |-> TRUE, code |-> StatusTeapot, body |-> TeapotBody]
      [] OTHER -> [written |-> TRUE, code |-> StatusOK, body |-> "{\"msg\":\"pong\"}"]

\* C28: for any interleaving of two concurrent ServeHTTP calls on the same
\* Uitzicht value, the shared fields of Uitzicht are never modified; the id of
\* each call is its own request's X-Request-Id value or an identifier generated
\* for it alone; every log event of a call carries that call's id or none; and
\* the X-Request-Id header, the status and the body of each response are
\* determined by that call's own request.
C28_ConcurrentCallsIsolated ==
    /\ u = ExampleAppPing
    /\ \A q \in Reqs :
          /\ Entered(q, "RequestID") =>
                /\ r[q].XRequestId # Absent => requestID[q] = r[q].XRequestId
                /\ r[q].XRequestId = Absent =>
                      /\ requestID[q] \in UUIDs
                      /\ \A p \in Reqs \ {q} : requestID[p] # requestID[q]
          /\ \A k \in 1..Len(log) :
                log[k].by = q => log[k].request_id \in {NoAttr, requestID[q]}
          /\ Entered(q, "RequestLogging") => ggreq[q].Logger.request_id = requestID[q]
          /\ ResponseWritten(q) => ResponseRequestID(q) = <<requestID[q]>>
          /\ Ended(q) =>
                /\ ResponseWritten(q) = PingAnswer(r[q]).written
                /\ w[q].code = PingAnswer(r[q]).code
                /\ w[q].body = PingAnswer(r[q]).body

\* Two calls have run interleaved to the end: the second call's events lie
\* between the first call's "New request" and "Request finished" events, the
\* ids differ and so do the answers.
C28_Witness ==
    /\ \A q \in Reqs : pc[q] = "done" /\ ResponseWritten(q)
    /\ requestID["r1"] # requestID["r2"]
    /\ w["r1"].code = StatusTeapot /\ w["r2"].code = StatusOK
    /\ \E a \in EventsOf("r1", "New request"), b \in EventsOf("r1", "Request finished") :
          \A k \in BoundaryEvents("r2") : a < k /\ k < b
    /\ EventsOf("r2", "New request") # {} /\ EventsOf("r2", "Request finished") # {}
    /\ \A k \in BoundaryEvents("r1") : log[k].request_id = requestID["r1"]
    /\ \A k \in BoundaryEvents("r2") : log[k].request_id = requestID["r2"]

\* The invocations of the layer at level n for the request (0: the core
\* handler; Depth + 1: ServeHTTP itself), and the times it has finished.
CallsAt(q, n) == {k \in 1..Len(trace[q]) : trace[q][k].ev = "call" /\ trace[q][k].n = n}
ReturnsAt(q, n) == {k \in 1..Len(trace[q]) : trace[q][k].ev = "return" /\ trace[q][k].n = n}

\* C29: for every request and every chain of the built-in middlewares, the
\* core handler and every middleware layer is invoked at most once and
\* finishes at most once, whatever the outcome (decode failure, domain error,
\* serialization failure, write failure); once ServeHTTP has ended nothing is
\* invoked that had not been invoked before the response was written.
C29_NoLayerInvokedTwice ==
    \A q \in Reqs :
        /\ \A n \in 0..(Depth + 1) :
              /\ Cardinality(CallsAt(q, n)) <= 1
              /\ Cardinality(ReturnsAt(q, n)) <= 1
              /\ \A k \in ReturnsAt(q, n) : \E c \in CallsAt(q, n) : c < k
        /\ Ended(q) =>
              \A k \in 1..Len(trace[q]) :
                  trace[q][k].ev = "call" => \A e \in ReturnsAt(q, Depth + 1) : k < e

\* A request through four middlewares whose handler returned a domain error
\* and whose response could not be written: every layer ran exactly once.
C29_Witness ==
    \E q \in Reqs :
        /\ Depth = 4
        /\ pc[q] = "panic"
        /\ panicValue[q] = "write: broken pipe"
        /\ CoreRet(q).done /\ CoreRet(q).err # NoError
        /\ \A n \in 0..(Depth + 1) : Cardinality(CallsAt(q, n)) = 1

\* The events a call of ErrorHandlingMiddleware and its translators emit.
ErrorHandlingEvents(q) ==
    {k \in 1..Len(log) :
        /\ log[k].by = q
        /\ log[k].msg \in {"Going to handle error", "Handling error", "Handled error"}}

\* C30: when the handler ErrorHandlingMiddleware wraps returns a nil error,
\* the middleware invokes no translator (and logs nothing about error
\* handling) and returns the envelope it received, all its fields unchanged,
\* together with a nil error.
C30_NilErrorPassesEnvelopeUnchanged ==
    \A q \in Reqs :
        (/\ Left(q, "ErrorHandling")
         /\ EHInput(q).done
         /\ EHInput(q).err = NoError) =>
            /\ EHOutput(q).done
            /\ EHOutput(q).err = NoError
            /\ EHOutput(q).ggresp = EHInput(q).ggresp
            /\ TranslatorCalls(q) = <<>>
            /\ ErrorHandlingEvents(q) = {}

\* ErrorHandlingMiddleware, registered with translators, has passed on an
\* envelope with a payload and a status other than 200 that came without an
\* error.
C30_Witness ==
    \E q \in Reqs :
        /\ Left(q, "ErrorHandling")
        /\ u.errorHandlers # <<>>
        /\ EHInput(q).done /\ EHInput(q).err = NoError
        /\ ~EHInput(q).ggresp.isNil
        /\ EHInput(q).ggresp.StatusCode \notin {0, StatusOK}
        /\ EHOutput(q).done
        /\ EHOutput(q).ggresp = EHInput(q).ggresp

\* The handler wrapped by DataProcessingMiddleware returned a non-nil error.
InnerErrorAtCodec(q) ==
    /\ Left(q, "DataProcessing")
    /\ DPInput(q).done
    /\ DPInput(q).err # NoError

\* C31: when the handler wrapped by DataProcessingMiddleware returns a non-nil
\* error, the middleware returns that error with a new empty envelope: no
\* serialized body and no content-type on it, and neither the layers outside
\* nor the response carry a header, payload or status code the inner layers
\* had set.
C31_InnerErrorGivesFreshEnvelope ==
    \A q \in Reqs :
        InnerErrorAtCodec(q) =>
            /\ DPOutput(q).done
            /\ DPOutput(q).err = DPInput(q).err
            /\ DPOutput(q).ggresp = EmptyGGResponse
            /\ \A i \in LevelOf("DataProcessing")..Depth :
                  (ret[q][i].done /\ ~ret[q][i].ggresp.isNil) =>
                      /\ ret[q][i].ggresp.ResponseData = NilPayload
                      /\ ret[q][i].ggresp.Headers["X-Custom"] = <<>>
                      /\ ret[q][i].ggresp.Headers["content-type"] = <<>>
                      /\ ret[q][i].ggresp.serializedResponse = ""
                      /\ ~DPInput(q).ggresp.isNil =>
                            \/ DPInput(q).ggresp.StatusCode = 0
                            \/ ret[q][i].ggresp.StatusCode # DPInput(q).ggresp.StatusCode
            /\ ResponseWritten(q) =>
                  /\ w[q].header["X-Custom"] = <<>>
                  /\ w[q].header["Content-Type"] = <<>>
                  /\ ~DPInput(q).ggresp.isNil =>
                        \/ DPInput(q).ggresp.StatusCode = 0
                        \/ w[q].code # DPInput(q).ggresp.StatusCode

\* The inner handler returned an error with an envelope that holds a status
\* code and a header; a translator outside DataProcessingMiddleware matched
\* and the response was written without them.
C31_Witness ==
    \E q \in Reqs :
        /\ InnerErrorAtCodec(q)
        /\ ~DPInput(q).ggresp.isNil
        /\ DPInput(q).ggresp.StatusCode = 201
        /\ DPInput(q).ggresp.Headers["X-Custom"] = <<"a">>
        /\ DPOutput(q).ggresp = EmptyGGResponse
        /\ pc[q] = "done"
        /\ ResponseWritten(q)
        /\ w[q].header["X-Custom"] = <<>>

\* The core handler returned a domain error that a translator of the list
\* maps to a status.
MappedDomainError(q) ==
    /\ CoreRet(q).done
    /\ CoreRet(q).err # NoError
    /\ FirstMatch(u.errorHandlers, CoreRet(q).err) # 0

\* What the first matching translator makes of the core handler's error.
Mapped(q) ==
    ApplyErrorHandler(u.errorHandlers[FirstMatch(u.errorHandlers, CoreRet(q).err)],
                      CoreRet(q).err)

\* ErrorHandlingMiddleware wraps DataProcessingMiddleware.
TranslatorsOutsideCodec == LevelOf("ErrorHandling") > LevelOf("DataProcessing")

\* C32: with ErrorHandlingMiddleware registered outside
\* DataProcessingMiddleware, a domain error of the core handler that a
\* translator maps to status s is answered with status s, an empty body and no
\* content-type header; a response to such an error whose body is the JSON
\* encoding of the translator's payload comes only from a chain with
\* ErrorHandlingMiddleware inside DataProcessingMiddleware, and there it
\* carries content-type: application/json.
C32_TranslatorOutsideCodecGivesEmptyBody ==
    \A q \in Reqs :
        (MappedDomainError(q) /\ Ended(q)) =>
            /\ TranslatorsOutsideCodec =>
                  /\ ResponseWritten(q)
                  /\ w[q].code = Mapped(q).statusCode
                  /\ w[q].body = ""
                  /\ w[q].header["Content-Type"] = <<>>
            /\ (ResponseWritten(q) /\ w[q].body = JSONMarshal(Mapped(q).errorData).bytes) =>
                  /\ ~TranslatorsOutsideCodec
                  /\ w[q].code = Mapped(q).statusCode
                  /\ w[q].header["Content-Type"] = <<"application/json">>
            /\ (~TranslatorsOutsideCodec /\ ResponseWritten(q)) =>
                  w[q].body = JSONMarshal(Mapped(q).errorData).bytes

\* ErrorHandlingMiddleware stands outside DataProcessingMiddleware, HandlePing
\* failed with the error HandleErrors maps to 418, and the response went out
\* with that status and nothing else.
C32_Witness ==
    \E q \in Reqs :
        /\ TranslatorsOutsideCodec
        /\ u.HandlerFunc = "HandlePing"
        /\ MappedDomainError(q)
        /\ pc[q] = "done"
        /\ w[q].code = StatusTeapot
        /\ w[q].body = ""
        /\ w[q].header["Content-Type"] = <<>>

====
